---- MODULE Spec2Model ----
(***************************************************************************)
(* A model of websearx_tool: the search agent with its one-shot failover   *)
(* between the searxng and ddgs backends (core.py WebSearchAgent), the     *)
(* web_search facade (tools.py, server.py) and the content retrieval       *)
(* pipeline get_url_content / smart_fetch / UrlContent /                   *)
(* fetch_rendered_text (tools.py, core.py).                                *)
(*                                                                         *)
(* Every network call (the /config probe, a backend search, HEAD/GET of a  *)
(* page, a browser navigation) is a step whose answer is drawn from the    *)
(* answers the environment can give.  The time_range parameter only        *)
(* travels to the backends as a request parameter and decides no branch    *)
(* of the program; the backends' answers are arbitrary here, so it is not  *)
(* a variable of the model.                                                *)
(***************************************************************************)
EXTENDS Integers, Sequences, FiniteSets, TLC

\* ------------------------------------------------------------ bounds
\* longest record list a backend answers with
MaxRecords == 2
\* largest max_results a caller asks for
MaxLimit == 3
\* max_results goes down to -MaxNegLimit
MaxNegLimit == 1

\* longest list of entries handed to get_url_content
MaxUrls == 2

\* ------------------------------------------------------------ values
\* web_search's default for max_results
DefaultMaxResults == 5

None == "<None>"

Min(a, b) == IF a <= b THEN a ELSE b
Max(a, b) == IF a >= b THEN a ELSE b

\* the empty string, a whitespace-only string, an ordinary query
Queries == {"", " ", "q"}
\* Python truthiness of a str: `if query:`
Truthy(s) == s # ""
\* s.strip() == ""
IsBlank(s) == s \in {"", " "}

Limits == (0 - MaxNegLimit) .. MaxLimit

\* Raw records as the backends send them.  searxng names the fields
\* url/content, ddgs names them href/body; a record may carry both, or lack
\* a required field, or carry the empty string as its url (a str, which is
\* all the validation of Result asks of it).
SearxRecords ==
    { [url |-> "u1", title |-> "t1", content |-> "c1"],
      [url |-> "u2", title |-> "t2"],
      [url |-> "u3", content |-> "c3"],
      [url |-> "", title |-> "t0"] }
DdgsRecords ==
    { [href |-> "h4", title |-> "t4", body |-> "b4"],
      [href |-> "h5", url |-> "u5", title |-> "t5", body |-> "b5", content |-> "c5"],
      [title |-> "t6", body |-> "b6"] }

SeqsUpTo(S, n) == UNION { [1..k -> S] : k \in 0..n }

\* what GET /search can come back with
SearxResponses ==
    { [kind |-> k, records |-> <<>>] : k \in {"raise", "status", "badjson"} }
    \cup { [kind |-> "ok", records |-> rs] : rs \in SeqsUpTo(SearxRecords, MaxRecords) }
\* what DDGS().text(...) can come back with
DdgsResponses ==
    { [kind |-> "raise", records |-> <<>>] }
    \cup { [kind |-> "ok", records |-> rs] : rs \in SeqsUpTo(DdgsRecords, MaxRecords) }

\* what GET /config can come back with; "timeout" stands for every
\* requests exception that is not a ConnectionError (ReadTimeout, ...)
ProbeOutcomes == {"ok_engines", "ok_no_engines", "not_ok", "conn_error", "timeout"}

\* ------------------------------------------------------------ texts
\* A text is known by the URL it was retrieved from, the tier that retrieved
\* it and its form: "plain" (ordinary text), "padded" (text with white space
\* around it), "blank" (white space only), "js" (text holding the "enable
\* javascript" marker), "empty" (the empty string) or "none" (Python's None).
EmptyText == [src |-> "", tier |-> "", form |-> "empty"]
NoneText == [src |-> "", tier |-> "", form |-> "none"]
Text(u, tier, form) ==
    IF form = "empty" THEN EmptyText
    ELSE IF form = "none" THEN NoneText
    ELSE [src |-> u, tier |-> tier, form |-> form]
\* a test that lets the empty string through: `if text is not None:`
TruthyTextNotNone(t) == t.form # "none"

\* Python truthiness of an Optional[str]: `if text:`
TruthyText(t) == t.form \notin {"none", "empty"}

\* ------------------------------------------------------------ Result
Put(f, k, x) == [j \in (DOMAIN f) \cup {k} |-> IF j = k THEN x ELSE f[j]]

\* handle_aliases with the two snippet sources taken in the other order
handle_aliases_content_first(values) ==
    LET v1 == IF "content" \in DOMAIN values
              THEN Put(values, "snippet", values["content"])
              ELSE IF "body" \in DOMAIN values
                   THEN Put(values, "snippet", values["body"])
                   ELSE values
    IN  IF "url" \in DOMAIN v1 /\ "href" \notin DOMAIN v1
        THEN Put(v1, "href", v1["url"])
        ELSE v1

handle_aliases(values) ==
    LET v1 == IF "body" \in DOMAIN values THEN Put(values, "snippet", values["body"])
              ELSE IF "content" \in DOMAIN values
                   THEN Put(values, "snippet", values["content"])
                   ELSE values
    IN  IF "url" \in DOMAIN v1 /\ "href" \notin DOMAIN v1
        THEN Put(v1, "href", v1["url"])
        ELSE v1

\* pydantic validation: url (by its alias href) and title are required
Validates(values) == {"href", "title"} \subseteq DOMAIN handle_aliases(values)

Result(values) ==
    LET w == handle_aliases(values)
    IN  [url |-> w["href"],
         title |-> w["title"],
         snippet |-> IF "snippet" \in DOMAIN w THEN w["snippet"] ELSE None,
         full_content |-> IF "full_content" \in DOMAIN w THEN w["full_content"] ELSE NoneText]

\* [Result(**r) for r in results]: raises as soon as one record fails
AllValidate(rs) == \A i \in 1..Len(rs) : Validates(rs[i])
Results(rs) == [i \in 1..Len(rs) |-> Result(rs[i])]

\* a slice that keeps one element too many
PySliceOneMore(s, m) == SubSeq(s, 1, Min(m + 1, Len(s)))

\* s[:m] of Python
PySlice(s, m) ==
    IF m >= 0 THEN SubSeq(s, 1, Min(m, Len(s)))
    ELSE SubSeq(s, 1, Max(Len(s) + m, 0))

\* a model_dump that keeps the fields that are None
model_dump_keep_none(r) == r

\* r.model_dump(exclude_none=True)
IsNone(field, v) == IF field = "full_content" THEN v.form = "none" ELSE v = None
model_dump(r) == [k \in {j \in DOMAIN r : ~IsNone(j, r[j])} |-> r[k]]

\* ------------------------------------------------------------ get_url_content input
\* An entry of the input is a URL or the empty string.
ScrapeUrls == {"a", "b"}
Entries == ScrapeUrls \cup {""}
NonEmpty(u) == u # ""

\* The argument of get_url_content: a list of entries ("list"), a string
\* whose comma-separated, stripped segments are the entries ("str": one
\* segment is a string without a comma), or a string holding a JSON list of
\* the entries ("json").  A bracketed string that is no JSON list is kept
\* whole, as one URL: it is a "str" of one segment.
Inputs ==
    { [form |-> f, items |-> xs] : f \in {"list", "json"}, xs \in SeqsUpTo(Entries, MaxUrls) }
    \cup { [form |-> "str", items |-> xs] : xs \in SeqsUpTo(Entries, MaxUrls) \ {<<>>} }

\* tools.get_url_content, lines 22-44
SanitizeInput(inp) ==
    LET url_list0 ==
            IF inp.form = "str" /\ Len(inp.items) > 1
            THEN SelectSeq(inp.items, NonEmpty)
            ELSE inp.items
    IN  SelectSeq(url_list0, NonEmpty)

\* ------------------------------------------------------------ smart_fetch
\* What the network gives for one URL at the cheap tier: the HEAD request
\* (raises, or declares a PDF, or declares something else), the download
\* (raises, yields nothing, or yields the body) and the extraction (raises,
\* or yields None or a text of some form).
FetchOutcomes ==
    { [head |-> "raise", load |-> "-", extract |-> "-"],
      [head |-> "pdf", load |-> "raise", extract |-> "-"],
      [head |-> "pdf", load |-> "ok", extract |-> "raise"],
      [head |-> "html", load |-> "raise", extract |-> "-"],
      [head |-> "html", load |-> "none", extract |-> "-"],
      [head |-> "html", load |-> "ok", extract |-> "raise"],
      [head |-> "html", load |-> "ok", extract |-> "none"],
      [head |-> "html", load |-> "ok", extract |-> "js"] }
    \cup { [head |-> "pdf", load |-> "ok", extract |-> x] :
              x \in {"empty", "blank", "padded", "plain"} }
    \cup { [head |-> "html", load |-> "ok", extract |-> "plain"] }

smart_fetch(url, e) ==
    IF e.head = "raise" \/ e.load = "raise" \/ e.extract = "raise" THEN NoneText
    ELSE IF e.head = "pdf" THEN Text(url, "pdf", e.extract)
    ELSE IF e.load = "ok" /\ e.extract \notin {"none", "empty", "js"}
         THEN Text(url, "static", e.extract)
         ELSE NoneText

\* ------------------------------------------------------------ state
VARIABLES
    mode,              \* the entry point called: "idle", "agent" (a WebSearchAgent
                       \* used directly), "tools" (tools.web_search), "server"
                       \* (server.web_search), "scrape" (tools.get_url_content)
    pc,                \* where the call is
    query,             \* WebSearchAgent.query
    arg,               \* the query argument of the running search call
    max_results,       \* WebSearchAgent.max_results
    full_content,      \* web_search's full_content flag
    agent_name,        \* WebSearchAgent.agent_name
    switch_and_retry,  \* WebSearchAgent.switch_and_retry
    agent_func,        \* WebSearchAgent.agent_func: "searxng" or "ddgs"
    probed,            \* the constructor sent the GET /config probe
    attempts,          \* the backend searches of the running call, in order,
                       \* each with the answer it met
    flag0,             \* switch_and_retry as the running search call found it
    results,           \* the list the search call returned
    input,             \* the argument of get_url_content
    url_list,          \* get_url_content's url_list
    pos,               \* how many URLs of url_list the loop has been through
    fetched,           \* what the network gave the smart_fetch call of the
                       \* loop's latest turn, while the loop is under way
    is_dict,           \* UrlContent.is_dict
    text,              \* UrlContent.text: a position -> text map, or one text
    index,             \* UrlContent.index
    pw_queue,          \* UrlContent.pw_queue: position -> URL
    content,           \* fetch_rendered_text's content: position -> text
    playwright,        \* the rendering session: "none", "running", "stopped"
    browser,           \* the browser: "none", "open", "closed"
    navLog,            \* the navigations of the render pass, in order: the
                       \* position navigated to and what came of it
    ret                \* what the entry point gave its caller

vars == <<mode, pc, query, arg, max_results, full_content, agent_name,
          switch_and_retry, agent_func, probed, attempts, flag0, results, input,
          url_list, pos, fetched, is_dict, text, index, pw_queue, content,
          playwright,
          browser, navLog, ret>>

agentVars == <<query, max_results, agent_name, switch_and_retry, agent_func, probed>>

searchVars == <<arg, attempts, flag0, results>>
scrapeVars == <<input, url_list, pos, fetched, is_dict, text, index, pw_queue, content,
                playwright, browser, navLog>>
contentVars == <<is_dict, text, index, pw_queue>>
sessionVars == <<playwright, browser>>

NoRet == [kind |-> "none", val |-> <<>>]
NoInput == [form |-> "none", items |-> <<>>]
NoFetch == [head |-> "-", load |-> "-", extract |-> "-"]

Init ==
    /\ mode = "idle"
    /\ pc = "idle"
    /\ query = ""
    /\ arg = ""
    /\ max_results = 4
    /\ full_content = FALSE
    /\ agent_name = "searxng"
    /\ switch_and_retry = TRUE
    /\ agent_func = "none"
    /\ probed = FALSE
    /\ attempts = <<>>
    /\ flag0 = TRUE
    /\ results = <<>>
    /\ input = NoInput
    /\ url_list = <<>>
    /\ pos = 0
    /\ fetched = NoFetch
    /\ is_dict = FALSE
    /\ text = EmptyText
    /\ index = 0
    /\ pw_queue = <<>>
    /\ content = <<>>
    /\ playwright = "none"
    /\ browser = "none"
    /\ navLog = <<>>
    /\ ret = NoRet

\* ------------------------------------------------------------ WebSearchAgent
\* _check_agent: the function the agent is bound to, or "raise" when the
\* probe's exception is not the one the except clause names
check_agent(agent, p) ==
    IF agent = "ddgs" THEN "ddgs"
    ELSE IF p = "ok_engines" THEN "searxng"
    ELSE IF p = "timeout" THEN "raise"
    ELSE "ddgs"

\* WebSearchAgent.__init__
Construct(q, m, a, p) ==
    /\ query' = q
    /\ max_results' = m
    /\ agent_name' = a
    /\ switch_and_retry' = TRUE
    /\ agent_func' = IF check_agent(a, p) = "raise" THEN "none" ELSE check_agent(a, p)
    /\ probed' = (a # "ddgs")

\* agent.agent_func(query) begins
BeginSearch(fn, q, flag) ==
    /\ pc' = fn
    /\ arg' = q
    /\ attempts' = <<>>
    /\ flag0' = flag
    /\ results' = <<>>

\* a caller builds an agent of its own
AgentInit(q, m, a, p) ==
    /\ pc = "idle"
    /\ mode' = "agent"
    /\ Construct(q, m, a, p)
    /\ pc' = IF check_agent(a, p) = "raise" THEN "raised" ELSE "ready"
    /\ ret' = IF check_agent(a, p) = "raise" THEN [kind |-> "exc", val |-> <<>>] ELSE NoRet
    /\ UNCHANGED <<arg, full_content, attempts, flag0, results, scrapeVars>>

\* ... and calls agent.agent_func(q), once or again on the same instance
AgentCall(q) ==
    /\ mode = "agent"
    /\ pc \in {"ready", "done"}
    /\ BeginSearch(agent_func, q, switch_and_retry)
    /\ ret' = NoRet
    /\ UNCHANGED <<mode, full_content, agentVars, scrapeVars>>

\* a searxng_search that takes an answer without results for a failure
SearxSucceedsNonEmpty(resp) ==
    resp.kind = "ok" /\ AllValidate(resp.records) /\ resp.records # <<>>

\* lines 81-85: searxng_search returns the answer: status 200, a JSON body,
\* and every record makes a Result
SearxSucceeds(resp) == resp.kind = "ok" /\ AllValidate(resp.records)

\* the flag as the except clause of line 87 finds it: line 84 has set it
\* when the exception comes from line 85
FlagAtExcept(resp, flag) == IF resp.kind = "ok" THEN TRUE ELSE flag

\* lines 103-106: ddgs_search returns the answer
DdgsSucceeds(resp) == resp.kind = "ok" /\ AllValidate(resp.records)

\* the entry of the attempts log for one backend call: the backend, how the
\* call went, and the records of an answer that was accepted
Attempt(b, resp) ==
    IF resp.kind = "ok" /\ ~AllValidate(resp.records)
    THEN [backend |-> b, kind |-> "invalid", records |-> <<>>]
    ELSE [backend |-> b, kind |-> resp.kind, records |-> resp.records]

\* searxng_search, from its entry to its return or to its call of ddgs_search
SearxngSearch(resp) ==
    /\ pc = "searxng"
    /\ query' = IF Truthy(arg) THEN arg ELSE query
    /\ attempts' = Append(attempts, Attempt("searxng", resp))
    /\ IF SearxSucceeds(resp)
       THEN /\ switch_and_retry' = TRUE
            /\ results' = PySlice(Results(resp.records), max_results)
            /\ pc' = "searched"
       ELSE IF FlagAtExcept(resp, switch_and_retry)
            THEN /\ switch_and_retry' = FALSE
                 /\ pc' = "ddgs"
                 /\ UNCHANGED results
            ELSE /\ results' = <<>>
                 /\ pc' = "searched"
                 /\ UNCHANGED switch_and_retry
    /\ UNCHANGED <<mode, arg, max_results, full_content, agent_name, agent_func,
                   probed, flag0, scrapeVars, ret>>

\* a ddgs_search that fails over whatever backend the agent was built for
DdgsSearchAnyAgent(resp) ==
    /\ pc = "ddgs"
    /\ query' = IF Truthy(arg) THEN arg ELSE query
    /\ attempts' = Append(attempts, Attempt("ddgs", resp))
    /\ IF DdgsSucceeds(resp)
       THEN /\ results' = PySlice(Results(resp.records), max_results)
            /\ pc' = "searched"
            /\ UNCHANGED switch_and_retry
       ELSE IF switch_and_retry
            THEN /\ switch_and_retry' = FALSE
                 /\ pc' = "searxng"
                 /\ UNCHANGED results
            ELSE /\ results' = <<>>
                 /\ pc' = "searched"
                 /\ UNCHANGED switch_and_retry
    /\ UNCHANGED <<mode, arg, max_results, full_content, agent_name, agent_func,
                   probed, flag0, scrapeVars, ret>>

\* a ddgs_search that fails over without consulting switch_and_retry
DdgsSearchFlagless(resp) ==
    /\ pc = "ddgs"
    /\ query' = IF Truthy(arg) THEN arg ELSE query
    /\ attempts' = Append(attempts, Attempt("ddgs", resp))
    /\ IF DdgsSucceeds(resp)
       THEN /\ results' = PySlice(Results(resp.records), max_results)
            /\ pc' = "searched"
            /\ UNCHANGED switch_and_retry
       ELSE IF agent_name # "searxng"
            THEN /\ switch_and_retry' = FALSE
                 /\ pc' = "searxng"
                 /\ UNCHANGED results
            ELSE /\ results' = <<>>
                 /\ pc' = "searched"
                 /\ UNCHANGED switch_and_retry
    /\ UNCHANGED <<mode, arg, max_results, full_content, agent_name, agent_func,
                   probed, flag0, scrapeVars, ret>>

\* ddgs_search, from its entry to its return or to its call of searxng_search
DdgsSearch(resp) ==
    /\ pc = "ddgs"
    /\ query' = IF Truthy(arg) THEN arg ELSE query
    /\ attempts' = Append(attempts, Attempt("ddgs", resp))
    /\ IF DdgsSucceeds(resp)
       THEN /\ results' = PySlice(Results(resp.records), max_results)
            /\ pc' = "searched"
            /\ UNCHANGED switch_and_retry
       ELSE IF switch_and_retry /\ agent_name # "searxng"
            THEN /\ switch_and_retry' = FALSE
                 /\ pc' = "searxng"
                 /\ UNCHANGED results
            ELSE /\ results' = <<>>
                 /\ pc' = "searched"
                 /\ UNCHANGED switch_and_retry
    /\ UNCHANGED <<mode, arg, max_results, full_content, agent_name, agent_func,
                   probed, flag0, scrapeVars, ret>>

\* the search call returns its list to the caller that built the agent
AgentReturn ==
    /\ mode = "agent"
    /\ pc = "searched"
    /\ pc' = "done"
    /\ ret' = [kind |-> "list", val |-> results]
    /\ UNCHANGED <<mode, arg, full_content, agentVars, attempts, flag0, results,
                   scrapeVars>>

\* ------------------------------------------------------------ web_search
ModelDumps(rs) == [i \in 1..Len(rs) |-> model_dump(rs[i])]

\* tools.web_search, lines 82-83: build the agent, call its function
WebSearchBegin(md, q, fc, m, p) ==
    /\ pc = "idle"
    /\ mode' = md
    /\ full_content' = fc
    /\ Construct(q, m, "searxng", p)
    /\ UNCHANGED scrapeVars
    /\ IF check_agent("searxng", p) = "raise"
       THEN /\ pc' = "raised"
            /\ ret' = [kind |-> "exc", val |-> <<>>]
            /\ UNCHANGED <<arg, attempts, flag0, results>>
       ELSE /\ BeginSearch(check_agent("searxng", p), q, TRUE)
            /\ ret' = NoRet

WebSearch(q, fc, m, p) == WebSearchBegin("tools", q, fc, m, p)

\* server.web_search, lines 48-61: what the tool makes of its raw arguments
FullContentRaw == {"True", "False", "str:true", "str:TRUE", "str:false", "str:yes"}
SanitizeFullContent(raw) ==
    IF raw \in {"True", "False"} THEN raw = "True"
    ELSE raw \in {"str:true", "str:TRUE"}

MaxResultsRaw ==
    { [t |-> "int", v |-> k] : k \in Limits }
    \cup { [t |-> "str", v |-> k] : k \in Limits }
    \cup { [t |-> x, v |-> 0] : x \in {"null", "junk", "none"} }
SanitizeMaxResults(raw) ==
    IF raw.t \in {"int", "str"} THEN raw.v ELSE DefaultMaxResults

ServerWebSearch(q, fcRaw, mRaw, p) ==
    WebSearchBegin("server", q, SanitizeFullContent(fcRaw), SanitizeMaxResults(mRaw), p)

\* what the entry point hands back for the list tools.web_search returns
Handed(md, lst) ==
    IF md = "server"
    THEN IF lst = <<>> THEN [kind |-> "sentinel", val |-> <<>>]
         ELSE [kind |-> "json", val |-> lst]
    ELSE [kind |-> "list", val |-> lst]

\* tools.web_search, lines 85-101, without scraping
WebSearchReturn ==
    /\ mode \in {"tools", "server"}
    /\ pc = "searched"
    /\ results = <<>> \/ ~full_content
    /\ pc' = "done"
    /\ ret' = Handed(mode, IF results = <<>> THEN <<>> ELSE ModelDumps(results))
    /\ UNCHANGED <<mode, arg, full_content, agentVars, attempts, flag0, results,
                   scrapeVars>>

\* ------------------------------------------------------------ UrlContent
\* a UrlContent that takes a map for one URL too
UrlContentInitFromOne(n) ==
    /\ text' = IF n >= 1 THEN <<>> ELSE EmptyText
    /\ index' = 0
    /\ pw_queue' = <<>>
    /\ is_dict' = (n >= 1)

\* UrlContent.__init__
UrlContentInit(n) ==
    /\ text' = IF n > 1 THEN <<>> ELSE EmptyText
    /\ index' = 0
    /\ pw_queue' = <<>>
    /\ is_dict' = (n > 1)

\* an add_text that puts the URL of the text in the queue as well
add_text_and_queue(t) ==
    /\ text' = IF is_dict THEN (index :> t) @@ text ELSE t
    /\ pw_queue' = (index :> t.src) @@ pw_queue
    /\ index' = index + 1
    /\ UNCHANGED is_dict

\* an add_text that leaves index where it is
add_text_same_index(t) ==
    /\ text' = IF is_dict THEN (index :> t) @@ text ELSE t
    /\ UNCHANGED <<index, pw_queue, is_dict>>

\* UrlContent.add_text
add_text(t) ==
    /\ text' = IF is_dict THEN (index :> t) @@ text ELSE t
    /\ index' = index + 1
    /\ UNCHANGED <<pw_queue, is_dict>>

\* an add_to_queue that leaves index where it is
add_to_queue_same_index(url) ==
    /\ pw_queue' = (index :> url) @@ pw_queue
    /\ UNCHANGED <<index, text, is_dict>>

\* UrlContent.add_to_queue
add_to_queue(url) ==
    /\ pw_queue' = (index :> url) @@ pw_queue
    /\ index' = index + 1
    /\ UNCHANGED <<text, is_dict>>

\* a dump that returns the render output alone
MergedRenderedOnly(rendered) ==
    IF is_dict THEN rendered
    ELSE IF 0 \in DOMAIN rendered THEN rendered[0] ELSE text

\* the text UrlContent.dump returns once the render pass gave `rendered`
Merged(rendered) ==
    IF is_dict THEN rendered @@ text
    ELSE IF 0 \in DOMAIN rendered THEN rendered[0] ELSE text

\* ------------------------------------------------------------ get_url_content
\* tools.get_url_content, lines 22-48: sanitize the input, build UrlContent
ScrapeBegin(inp) ==
    /\ input' = inp
    /\ url_list' = SanitizeInput(inp)
    /\ pos' = 0
    /\ fetched' = NoFetch
    /\ UrlContentInit(Len(SanitizeInput(inp)))
    /\ content' = <<>>
    /\ navLog' = <<>>
    /\ playwright' = "none"
    /\ browser' = "none"
    /\ pc' = IF Len(SanitizeInput(inp)) = 0 THEN "dump" ELSE "fetch"

\* tools.web_search, lines 93-99: the scraped data joins the results
Attach(rs, data, isDict) ==
    IF isDict
    THEN [i \in 1..Len(rs) |->
            IF (i - 1) \in DOMAIN data
            THEN [rs[i] EXCEPT !["full_content"] = data[i - 1]]
            ELSE rs[i]]
    ELSE IF Len(rs) = 1
         THEN [i \in 1..Len(rs) |-> [rs[i] EXCEPT !["full_content"] = data]]
         ELSE rs

\* get_url_content returns `data` to its caller: the caller of the tool, or
\* web_search, which attaches it and returns in its turn
ScrapeEnd(data) ==
    /\ pc' = "done"
    /\ IF mode = "scrape"
       THEN /\ ret' = [kind |-> IF is_dict THEN "dict" ELSE "str", val |-> data]
            /\ UNCHANGED results
       ELSE /\ results' = Attach(results, data, is_dict)
            /\ ret' = Handed(mode, ModelDumps(Attach(results, data, is_dict)))

\* an exception leaves get_url_content, and web_search when it is the caller
ScrapeRaise ==
    /\ pc' = "raised"
    /\ ret' = [kind |-> "exc", val |-> <<>>]
    /\ UNCHANGED results

GetUrlContent(inp) ==
    /\ pc = "idle"
    /\ mode' = "scrape"
    /\ ScrapeBegin(inp)
    /\ UNCHANGED <<full_content, agentVars, searchVars, ret>>

\* the agent and the locals of its search call, once nothing reads them
AgentDropped ==
    /\ query' = ""
    /\ max_results' = 4
    /\ agent_name' = "searxng"
    /\ switch_and_retry' = TRUE
    /\ agent_func' = "none"
    /\ probed' = FALSE
    /\ arg' = ""
    /\ attempts' = <<>>
    /\ flag0' = TRUE

\* tools.web_search, lines 89-91: the URLs of the results go to
\* get_url_content.  web_search does not use its agent past line 83, so the
\* agent leaves the state here.
WebSearchScrape ==
    /\ mode \in {"tools", "server"}
    /\ pc = "searched"
    /\ results # <<>> /\ full_content
    /\ ScrapeBegin([form |-> "list", items |-> [i \in 1..Len(results) |-> results[i].url]])
    /\ AgentDropped
    /\ UNCHANGED <<mode, full_content, results, ret>>

\* the network's answer makes a call inside the try of smart_fetch raise
Raises(e) == "raise" \in {e.head, e.load, e.extract}

\* a turn of the loop whose smart_fetch lets its exceptions through
FetchUnguarded(e) ==
    /\ pc = "fetch"
    /\ pos < Len(url_list)
    /\ fetched' = e
    /\ IF Raises(e)
       THEN /\ pc' = "raised"
            /\ ret' = [kind |-> "exc", val |-> <<>>]
            /\ UNCHANGED <<pos, contentVars>>
       ELSE /\ IF TruthyText(smart_fetch(url_list[pos + 1], e))
               THEN add_text(smart_fetch(url_list[pos + 1], e))
               ELSE add_to_queue(url_list[pos + 1])
            /\ pos' = pos + 1
            /\ pc' = IF pos + 1 = Len(url_list) THEN "dump" ELSE "fetch"
            /\ UNCHANGED ret
    /\ UNCHANGED <<mode, full_content, agentVars, searchVars, input, url_list,
                   content, sessionVars, navLog>>

\* one turn of the loop of lines 50-58
Fetch(e) ==
    /\ pc = "fetch"
    /\ pos < Len(url_list)
    /\ IF TruthyText(smart_fetch(url_list[pos + 1], e))
       THEN add_text(smart_fetch(url_list[pos + 1], e))
       ELSE add_to_queue(url_list[pos + 1])
    /\ pos' = pos + 1
    /\ fetched' = e
    /\ pc' = IF pos + 1 = Len(url_list) THEN "dump" ELSE "fetch"
    /\ UNCHANGED <<mode, full_content, agentVars, searchVars, input, url_list,
                   content, sessionVars, navLog, ret>>

\* UrlContent.dump with an empty queue: fetch_rendered_text is not called
DumpPlain ==
    /\ pc = "dump"
    /\ pw_queue = <<>>
    /\ fetched' = NoFetch
    /\ ScrapeEnd(text)
    /\ UNCHANGED <<mode, full_content, agentVars, arg, attempts, flag0, input,
                   url_list, pos, contentVars, content, sessionVars, navLog>>

\* ------------------------------------------------------------ fetch_rendered_text
LaunchOutcomes == {"ok", "raise"}
\* what a navigation and the extraction after it give
NavOutcomes == {"raise", "none", "empty", "plain"}

\* a dump that starts the session whether or not anything is queued
DumpRenderAlways ==
    /\ pc = "dump"
    /\ playwright' = "running"
    /\ fetched' = NoFetch
    /\ pc' = "launch"
    /\ UNCHANGED <<mode, full_content, agentVars, searchVars, input, url_list, pos,
                   contentVars, content, browser, navLog, ret>>

\* UrlContent.dump with a queue: fetch_rendered_text starts the session
DumpRender ==
    /\ pc = "dump"
    /\ pw_queue # <<>>
    /\ playwright' = "running"
    /\ fetched' = NoFetch
    /\ pc' = "launch"
    /\ UNCHANGED <<mode, full_content, agentVars, searchVars, input, url_list, pos,
                   contentVars, content, browser, navLog, ret>>

\* a session whose end leaves a browser it launched as it is
SessionExitLeavesBrowser(b) == b

\* line 141, the end of the `with sync_playwright()` block, on a return as on
\* an exception: the Playwright driver is stopped, and a browser it launched
\* and that is still open goes down with it
SessionExit(b) == IF b = "open" THEN "closed" ELSE b

\* line 142: p.chromium.launch
Launch(o) ==
    /\ pc = "launch"
    /\ IF o = "ok"
       THEN /\ browser' = "open"
            /\ pc' = "context"
            /\ UNCHANGED <<playwright, results, ret>>
       ELSE /\ playwright' = "stopped"
            /\ browser' = SessionExit(browser)
            /\ ScrapeRaise
    /\ UNCHANGED <<mode, full_content, agentVars, arg, attempts, flag0, input,
                   url_list, pos, fetched, contentVars, content, navLog>>

\* line 143: browser.new_context; an exception leaves the with block
\* without passing line 154
NewContext(o) ==
    /\ pc = "context"
    /\ IF o = "ok"
       THEN /\ pc' = "navigate"
            /\ UNCHANGED <<playwright, browser, results, ret>>
       ELSE /\ playwright' = "stopped"
            /\ browser' = SessionExit(browser)
            /\ ScrapeRaise
    /\ UNCHANGED <<mode, full_content, agentVars, arg, attempts, flag0, input,
                   url_list, pos, fetched, contentVars, content, navLog>>

\* a loop that is left at the first navigation that raises
PendingUntilRaise ==
    IF \E k \in 1..Len(navLog) : navLog[k].outcome = "raise" THEN {}
    ELSE (DOMAIN pw_queue) \ (DOMAIN content)

\* a loop that goes through the queue from its last entry to its first
NextQueuedLast ==
    CHOOSE i \in (DOMAIN pw_queue) \ (DOMAIN content) :
        \A j \in (DOMAIN pw_queue) \ (DOMAIN content) : i >= j

\* the positions of the queue still to navigate, and the next of them: the
\* queue is gone through in insertion order, which is ascending position
Pending == (DOMAIN pw_queue) \ (DOMAIN content)
NextQueued == CHOOSE i \in Pending : \A j \in Pending : i <= j

\* lines 144-153: one turn of the loop over the queue
Navigate(o) ==
    /\ pc = "navigate"
    /\ Pending # {}
    /\ content' = (NextQueued :> Text(pw_queue[NextQueued], "render",
                                      IF o = "plain" THEN "plain" ELSE "empty"))
                   @@ content
    /\ navLog' = Append(navLog, [pos |-> NextQueued, outcome |-> o])
    /\ UNCHANGED <<mode, pc, full_content, agentVars, searchVars, input, url_list,
                   pos, fetched, contentVars, sessionVars, ret>>

\* lines 154-155 and dump's lines 178-183: the browser is closed, the session
\* ends, the rendered texts join the others and the call returns
RenderEnd ==
    /\ pc = "navigate"
    /\ Pending = {}
    /\ browser' = "closed"
    /\ playwright' = "stopped"
    /\ text' = Merged(content)
    /\ ScrapeEnd(Merged(content))
    /\ UNCHANGED <<mode, full_content, agentVars, arg, attempts, flag0, input,
                   url_list, pos, fetched, is_dict, index, pw_queue, content,
                   navLog>>

Agents == {"searxng", "ddgs"}

Next ==
    \/ \E q \in Queries, m \in Limits, a \in Agents, p \in ProbeOutcomes : AgentInit(q, m, a, p)
    \/ \E q \in Queries : AgentCall(q)
    \/ \E resp \in SearxResponses : SearxngSearch(resp)
    \/ \E resp \in DdgsResponses : DdgsSearch(resp)
    \/ AgentReturn
    \/ \E q \in Queries, fc \in BOOLEAN, m \in Limits, p \in ProbeOutcomes : WebSearch(q, fc, m, p)
    \/ \E q \in Queries, fcRaw \in FullContentRaw, mRaw \in MaxResultsRaw, p \in ProbeOutcomes :
          ServerWebSearch(q, fcRaw, mRaw, p)
    \/ WebSearchReturn
    \/ WebSearchScrape
    \/ \E inp \in Inputs : GetUrlContent(inp)
    \/ \E e \in FetchOutcomes : Fetch(e)
    \/ DumpPlain
    \/ DumpRender
    \/ \E o \in LaunchOutcomes : Launch(o)
    \/ \E o \in LaunchOutcomes : NewContext(o)
    \/ \E o \in NavOutcomes : Navigate(o)
    \/ RenderEnd

Spec == Init /\ [][Next]_vars

\* A backend call returns or raises, and the function that made it goes on:
\* a search function that has been entered takes its step, and a search that
\* has its list hands it to its caller.
SearchFairness ==
    /\ WF_vars(\E resp \in SearxResponses : SearxngSearch(resp))
    /\ WF_vars(\E resp \in DdgsResponses : DdgsSearch(resp))
    /\ WF_vars(AgentReturn)

\* the searches of a WebSearchAgent that a caller built for itself
SearchNext ==
    \/ \E q \in Queries, m \in Limits, a \in Agents, p \in ProbeOutcomes : AgentInit(q, m, a, p)
    \/ \E q \in Queries : AgentCall(q)
    \/ \E resp \in SearxResponses : SearxngSearch(resp)
    \/ \E resp \in DdgsResponses : DdgsSearch(resp)
    \/ AgentReturn

FairSearchSpec == Init /\ [][SearchNext]_vars /\ SearchFairness

\* ------------------------------------------------------------ properties
CallsOf(b) == Cardinality({i \in 1..Len(attempts) : attempts[i].backend = b})
Other(b) == IF b = "searxng" THEN "ddgs" ELSE "searxng"
LastAttempt == attempts[Len(attempts)]

\* the Result a raw record stands for: href, else url, is the url; body, else
\* content, else snippet, is the snippet
Normalized(r) ==
    [url |-> IF "href" \in DOMAIN r THEN r["href"] ELSE r["url"],
     title |-> r["title"],
     snippet |-> IF "body" \in DOMAIN r THEN r["body"]
                 ELSE IF "content" \in DOMAIN r THEN r["content"]
                 ELSE IF "snippet" \in DOMAIN r THEN r["snippet"]
                 ELSE None,
     full_content |-> NoneText]
\* the first min(n, Len(s)) elements of s, for n >= 0
FirstN(s, n) == [i \in 1..Min(n, Len(s)) |-> s[i]]

\* the search call has returned to its caller and its log is still in the state
Searched == pc = "searched" /\ Len(attempts) >= 1

\* C1: in one search call of a WebSearchAgent, whatever the backends answer,
\* searxng_search is invoked at most once and ddgs_search at most once.
C1_EachBackendAtMostOnce ==
    CallsOf("searxng") <= 1 /\ CallsOf("ddgs") <= 1

\* C2: when the search of the preferred backend fails and the search of the
\* other backend succeeds, the list returned is the other backend's records,
\* normalized into Result, in the backend's order, cut to max_results.
C2_FailoverResult ==
    ( /\ Searched
      /\ Len(attempts) >= 2
      /\ attempts[1].backend = agent_name
      /\ attempts[1].kind # "ok"
      /\ attempts[2].backend = Other(agent_name)
      /\ attempts[2].kind = "ok"
      /\ max_results >= 0 )
    => results = FirstN([i \in 1..Len(attempts[2].records) |->
                            Normalized(attempts[2].records[i])], max_results)

C2_Witness ==
    /\ Searched
    /\ Len(attempts) = 2
    /\ attempts[1].backend = agent_name
    /\ attempts[1].kind # "ok"
    /\ attempts[2].backend = "ddgs"
    /\ attempts[2].kind = "ok"
    /\ max_results >= 1
    /\ Len(attempts[2].records) > max_results
    /\ results[1].snippet = "b5"

\* no backend search of the running web_search call was answered, and the
\* call did not go on to retrieve content
NoBackendAnswered ==
    /\ input = NoInput
    /\ \A i \in 1..Len(attempts) : attempts[i].kind # "ok"

\* C3: when both backends fail, web_search returns an empty list, the server
\* tool the "No results found." sentinel, and no exception reaches the
\* caller, whatever failed: the availability probe included.
C3_BothFailNoException ==
    (mode \in {"tools", "server"} /\ NoBackendAnswered)
    => /\ pc # "raised"
       /\ pc = "done" =>
            ret = IF mode = "server" THEN [kind |-> "sentinel", val |-> <<>>]
                  ELSE [kind |-> "list", val |-> <<>>]

\* C4, as the claim has it: when the preferred backend answers with zero
\* results and the call had not failed over, the other backend is attempted
\* exactly once before the call returns.
C4_ZeroResultsFailOver ==
    ( /\ Searched
      /\ flag0
      /\ attempts[1].backend = agent_name
      /\ attempts[1].kind = "ok"
      /\ attempts[1].records = <<>> )
    => CallsOf(Other(agent_name)) = 1

\* C4, amended: when the preferred backend answers with zero results, the
\* call returns the empty list at once and the other backend is not
\* attempted.
C4_ZeroResultsReturned ==
    ( /\ Len(attempts) >= 1
      /\ attempts[1].backend = agent_name
      /\ attempts[1].kind = "ok"
      /\ attempts[1].records = <<>> )
    => /\ Len(attempts) = 1
       /\ pc \in {"searched", "done"}
       /\ results = <<>>

C4_Witness ==
    /\ Searched
    /\ flag0
    /\ agent_name = "searxng"
    /\ attempts = << [backend |-> "searxng", kind |-> "ok", records |-> <<>>] >>

\* C5: a web_search with an empty or whitespace-only query ends with an
\* error, and no network call, probe or backend search, is made before it.
C5_BlankQueryFailsFast ==
    (mode \in {"tools", "server"} /\ input = NoInput /\ IsBlank(arg))
    => /\ ~probed
       /\ attempts = <<>>
       /\ pc = "raised"

\* C6: with max_results <= 0 the number of results returned is that of the
\* default limit, not that of the zero or negative value.
C6_NonPositiveLimitClamped ==
    (Searched /\ LastAttempt.kind = "ok" /\ max_results <= 0)
    => Len(results) = Min(DefaultMaxResults, Len(LastAttempt.records))

\* C7: for max_results >= 1 and a backend answer of k records, the list
\* returned is the first min(max_results, k) records in the backend's
\* order, whether searxng or ddgs gave the answer.
C7_Truncation ==
    (Searched /\ LastAttempt.kind = "ok" /\ max_results >= 1)
    => /\ Len(results) = Min(max_results, Len(LastAttempt.records))
       /\ \A i \in 1..Len(results) : results[i] = Result(LastAttempt.records[i])

C7_Witness ==
    /\ Searched
    /\ LastAttempt.kind = "ok"
    /\ LastAttempt.backend = "searxng"
    /\ max_results >= 1
    /\ Len(LastAttempt.records) > max_results
    /\ Len(results) = max_results

\* the URLs the input of get_url_content holds: its entries that are not empty
InputUrls == SelectSeq(input.items, NonEmpty)
\* get_url_content has returned
Scraped == pc = "done" /\ input # NoInput

\* C8: for an input of n > 1 URLs, the map get_url_content returns has the
\* keys 0..n-1, one entry for every position, none absent.
C8_OneEntryPerPosition ==
    (Scraped /\ Len(InputUrls) > 1)
    => /\ is_dict
       /\ DOMAIN text = 0 .. (Len(InputUrls) - 1)
       /\ mode = "scrape" => (ret.kind = "dict" /\ DOMAIN ret.val = 0 .. (Len(InputUrls) - 1))

C8_Witness ==
    /\ Scraped
    /\ mode = "scrape"
    /\ Len(InputUrls) > 1
    /\ pw_queue # <<>>
    /\ DOMAIN pw_queue # DOMAIN text
    /\ \E i \in DOMAIN text : text[i] = EmptyText

\* C9: the text at position i of the output is the text retrieved for the
\* i-th URL of the input, whichever tier retrieved it.
C9_PositionsFollowInput ==
    Scraped
    => IF is_dict
       THEN \A i \in DOMAIN text :
               /\ i + 1 \in 1..Len(InputUrls)
               /\ text[i] # EmptyText => text[i].src = InputUrls[i + 1]
       ELSE text # EmptyText => (Len(InputUrls) = 1 /\ text.src = InputUrls[1])

C9_Witness ==
    /\ Scraped
    /\ is_dict
    /\ DOMAIN text = {0, 1}
    /\ text[0].tier = "render"
    /\ text[1].tier = "pdf"
    /\ text[0].src # text[1].src

Attached == mode \in {"tools", "server"} /\ Scraped

\* C11: in a web_search with full_content true and a non-empty result list,
\* every returned result carries as full_content the text that content
\* retrieval produced for its own URL: a result that has a URL carries a
\* text, and a text a result carries was retrieved from that result's URL.
C11_FullContentOfOwnUrl ==
    Attached
    => \A i \in 1..Len(results) :
          /\ NonEmpty(results[i].url) => results[i].full_content.form # "none"
          /\ TruthyText(results[i].full_content)
                => results[i].full_content.src = results[i].url

\* no step of content retrieval was taken: get_url_content was not called,
\* no URL fetched, none queued, no session started, no navigation
NoRetrieval ==
    /\ input = NoInput
    /\ url_list = <<>>
    /\ pos = 0
    /\ pw_queue = <<>>
    /\ playwright = "none"
    /\ browser = "none"
    /\ navLog = <<>>

UrlPosition(i) == Cardinality({k \in 1..i : NonEmpty(results[k].url)}) - 1
\* every tier failed on the URL of result i: queued after the cheap tier,
\* and the render pass got no text from it
RetrievalFailed(i) ==
    /\ NonEmpty(results[i].url)
    /\ UrlPosition(i) \in DOMAIN content
    /\ content[UrlPosition(i)] = EmptyText

\* C13: in a web_search with full_content true, a failure while retrieving
\* the content of a result does not discard the result: the call returns,
\* every result is returned with its url, title and snippet, and a result
\* whose retrieval failed has no full_content field.
C13_FailureKeepsResult ==
    (mode \in {"tools", "server"} /\ input # NoInput /\ pc \in {"done", "raised"})
    => /\ pc = "done"
       /\ Len(ret.val) = Len(results)
       /\ \A i \in 1..Len(results) :
             /\ ret.val[i].url = results[i].url
             /\ ret.val[i].title = results[i].title
             /\ results[i].snippet # None => ret.val[i].snippet = results[i].snippet
             /\ RetrievalFailed(i) => "full_content" \notin DOMAIN ret.val[i]

\* the render pass met a navigation that raised
SomeNavigationRaised == \E k \in 1..Len(navLog) : navLog[k].outcome = "raise"
\* the navigations to position j
NavigationsTo(j) == {k \in 1..Len(navLog) : navLog[k].pos = j}
\* what the render pass owes position j after the navigation navLog[k]
RenderOutput(k) ==
    IF navLog[k].outcome = "plain"
    THEN [src |-> pw_queue[navLog[k].pos], tier |-> "render", form |-> "plain"]
    ELSE EmptyText

\* C14: in the render pass, a navigation that raises (timeout, navigation
\* failure) resolves its position to the empty string and does not abort
\* the batch: no exception leaves the pass, and when the pass has ended
\* every queued position was navigated and holds the output of its own
\* navigation.
C14_RenderFailureIsLocal ==
    SomeNavigationRaised
    => /\ pc \in {"navigate", "done"}
       /\ ret.kind # "exc"
       /\ \A k \in 1..Len(navLog) :
             navLog[k].outcome = "raise" => content[navLog[k].pos] = EmptyText
       /\ pc = "done" =>
             \A j \in DOMAIN pw_queue :
                /\ NavigationsTo(j) # {}
                /\ \A k \in NavigationsTo(j) :
                      /\ content[j] = RenderOutput(k)
                      /\ IF is_dict THEN text[j] = RenderOutput(k)
                         ELSE text = RenderOutput(k)

C14_Witness ==
    /\ pc = "done"
    /\ Len(navLog) = 2
    /\ navLog[1] = [pos |-> 0, outcome |-> "raise"]
    /\ navLog[2] = [pos |-> 1, outcome |-> "plain"]
    /\ text[0] = EmptyText
    /\ text[1] = [src |-> pw_queue[1], tier |-> "render", form |-> "plain"]

\* the cheap tier has been through every URL of the batch
CheapTierDone == pos = Len(url_list) /\ index = Len(url_list)
\* the positions the render pass navigated to, in the order of the navigations
NavigatedPositions == [k \in 1..Len(navLog) |-> navLog[k].pos]

\* what every state of a call shows of the render pass: it is under way only
\* once the cheap tier is done, it navigates to queued positions in strictly
\* ascending order (so to none twice), and when it has ended it has
\* navigated to every queued position
RenderPassInOrder ==
    /\ (playwright # "none" \/ navLog # <<>>) => CheapTierDone
    /\ \A k \in 1..Len(navLog) : navLog[k].pos \in DOMAIN pw_queue
    /\ \A k \in 1..Len(navLog) : \A l \in 1..Len(navLog) :
          k < l => navLog[k].pos < navLog[l].pos
    /\ (pc = "done" /\ pw_queue # <<>>)
          => \A j \in DOMAIN pw_queue :
                Cardinality({k \in 1..Len(navLog) : navLog[k].pos = j}) = 1

\* what every step of a call shows of it: a session starts from the state
\* in which none was started, and a session that has ended does not start
\* again
RenderPassOnce ==
    /\ (playwright # "running" /\ playwright' = "running") => playwright = "none"
    /\ playwright = "stopped" => playwright' = "stopped"
    /\ navLog # <<>> => (Len(navLog') >= Len(navLog) /\ playwright' # "none")

\* C15: within one get_url_content call the render pass runs at most once,
\* it starts only after the cheap tier has finished for every URL of the
\* batch, and it navigates to each queued position exactly once, in
\* ascending position.
C15_RenderPassOnceInOrder == []RenderPassInOrder /\ [][RenderPassOnce]_vars

C15_Witness ==
    /\ pc = "done"
    /\ mode = "scrape"
    /\ playwright = "stopped"
    /\ DOMAIN pw_queue = {0, 1}
    /\ NavigatedPositions = <<0, 1>>
    /\ pw_queue[0] # pw_queue[1]

\* C16: when no URL of the batch was deferred (the render queue is empty),
\* no rendering session is started during the call: no browser is
\* launched and no navigation occurs.
C16_EmptyQueueNoSession ==
    (input # NoInput /\ pw_queue = <<>>)
    => /\ playwright = "none"
       /\ browser = "none"
       /\ navLog = <<>>
       /\ content = <<>>
       /\ pc \in {"fetch", "dump", "done"}

C16_Witness ==
    /\ Scraped
    /\ mode = "scrape"
    /\ Len(url_list) = 1
    /\ pw_queue = <<>>
    /\ playwright = "none"
    /\ ret.kind = "str"
    /\ ret.val = [src |-> url_list[1], tier |-> "static", form |-> "plain"]

\* the tiers of smart_fetch
CheapTiers == {"pdf", "static"}
\* the positions whose text the cheap tier gave
ResolvedPositions ==
    IF is_dict THEN {i \in DOMAIN text : text[i].tier \in CheapTiers}
    ELSE IF text.tier \in CheapTiers THEN {0} ELSE {}

\* C17: a URL whose text was resolved at the cheap tier is not put in the
\* render queue: in every state of a batch call the positions resolved at
\* the cheap tier and the positions of the render queue are disjoint (and
\* make up the positions gone through), and the render pass navigates to no
\* resolved position.
C17_ResolvedNeverQueued ==
    input # NoInput
    => /\ ResolvedPositions \cap DOMAIN pw_queue = {}
       /\ ResolvedPositions \cup DOMAIN pw_queue = 0 .. (index - 1)
       /\ \A k \in 1..Len(navLog) : navLog[k].pos \notin ResolvedPositions

C17_Witness ==
    /\ Scraped
    /\ is_dict
    /\ ResolvedPositions = {0}
    /\ DOMAIN pw_queue = {1}
    /\ NavigatedPositions = <<1>>
    /\ text[0].tier = "static"
    /\ text[1].tier = "render"

\* the pass of fetch_rendered_text has been left, by return or by exception
RenderPassLeft == playwright # "none" /\ pc \in {"done", "raised"}

SearchStarts == pc \in {"searxng", "ddgs"} /\ attempts = <<>>

\* C19: every search call starts in the state "not yet failed over":
\* switch_and_retry is true at the start of each invocation, a later
\* invocation on the same WebSearchAgent included.
C19_FlagTrueAtStart ==
    /\ SearchStarts => switch_and_retry
    /\ flag0

\* C20: no failure of the cheap tier reaches the caller of get_url_content:
\* an exception in the metadata probe, in the page fetch and parse, in the
\* document download or in the extraction of the document's text puts the
\* URL in the render queue at its position, and the loop goes on with the
\* next URL; as long as no rendering session was started, no exception has
\* left the call.
C20_CheapTierNeverRaises ==
    /\ (input # NoInput /\ playwright = "none") => (pc # "raised" /\ ret.kind # "exc")
    /\ (pc \in {"fetch", "dump", "raised"} /\ Raises(fetched))
         => /\ pos >= 1
            /\ (pos - 1) \in DOMAIN pw_queue
            /\ pw_queue[pos - 1] = url_list[pos]
            /\ (pos - 1) \notin ResolvedPositions
            /\ pc = IF pos < Len(url_list) THEN "fetch" ELSE "dump"

C20_Witness ==
    /\ pc = "fetch"
    /\ Len(url_list) = 2
    /\ pos = 1
    /\ fetched = [head |-> "pdf", load |-> "ok", extract |-> "raise"]
    /\ pw_queue = (0 :> url_list[1])
    /\ ret = NoRet

\* the loop of get_url_content has just been through a URL that the HEAD
\* request declared a PDF and whose download and extraction did not raise
PdfExtracted ==
    /\ pc \in {"fetch", "dump"}
    /\ fetched.head = "pdf"
    /\ fetched.load = "ok"
    /\ fetched.extract \in {"empty", "blank", "padded", "plain"}
\* a text without the white space around it
Trimmed(t) ==
    IF t.form = "padded" THEN [t EXCEPT !.form = "plain"]
    ELSE IF t.form = "blank" THEN EmptyText
    ELSE t
\* the text UrlContent holds for position i
TextAt(i) == IF is_dict THEN text[i] ELSE text

\* C21: when the HEAD request declares a PDF and the download and the
\* extraction complete without error, the position is resolved with the
\* extracted text after trimming, whatever that text is, and the URL is not
\* put in the render queue.
C21_PdfResolvedTrimmed ==
    PdfExtracted
    => /\ (pos - 1) \notin DOMAIN pw_queue
       /\ is_dict => (pos - 1) \in DOMAIN text
       /\ TextAt(pos - 1) = Trimmed(Text(url_list[pos], "pdf", fetched.extract))

\* the positions of the batch
Positions == 0 .. (Len(url_list) - 1)

\* C22: in the result of get_url_content the entry of a URL is the empty
\* string only when every tier failed on that URL: the cheap tier gave no
\* text, so the URL was queued, and its navigation in the render pass
\* raised or gave no text.
C22_EmptyOnlyByTotalFailure ==
    Scraped
    => \A i \in Positions :
          /\ is_dict => i \in DOMAIN text
          /\ TextAt(i) = EmptyText
                => /\ i \in DOMAIN pw_queue
                   /\ NavigationsTo(i) # {}
                   /\ \A k \in NavigationsTo(i) : navLog[k].outcome # "plain"
          /\ i \notin DOMAIN pw_queue
                => (TruthyText(TextAt(i)) /\ TextAt(i).tier \in CheapTiers)

C22_Witness ==
    /\ Scraped
    /\ mode = "scrape"
    /\ is_dict
    /\ Positions = {0, 1}
    /\ text[0] = EmptyText
    /\ navLog = << [pos |-> 0, outcome |-> "none"] >>
    /\ text[1] = [src |-> url_list[2], tier |-> "pdf", form |-> "blank"]

\* a search function of a caller's own agent is running
Searching == mode = "agent" /\ pc \in {"searxng", "ddgs"}
\* the search call has handed its list to the caller
Returned == mode = "agent" /\ pc = "done" /\ ret.kind = "list"

\* C23: when every backend call returns or raises, every search call on a
\* WebSearchAgent returns a list in the end; searxng_search and ddgs_search
\* do not go on calling each other: one search call makes at most three
\* backend calls.
C23_SearchReturns ==
    /\ [](Len(attempts) <= 3)
    /\ Searching ~> Returned

C23_Witness ==
    /\ Returned
    /\ Len(attempts) = 3
    /\ attempts[1].backend = "ddgs"
    /\ attempts[2].backend = "searxng"
    /\ attempts[3].kind = "raise"
    /\ ret.val = <<>>

\* C24: for a UrlContent built with n > 1, after k calls of add_text and
\* add_to_queue (pos counts them) index is k, the keys of text and the keys
\* of pw_queue are together 0..k-1 and no key is in both maps; the map
\* dump returns has the keys 0..k-1.
C24_IndexAndKeys ==
    (input # NoInput /\ is_dict)
    => /\ index = pos
       /\ pc # "done"
            => /\ DOMAIN text \cup DOMAIN pw_queue = 0 .. (pos - 1)
               /\ DOMAIN text \cap DOMAIN pw_queue = {}
       /\ pc = "done"
            => /\ DOMAIN text = 0 .. (pos - 1)
               /\ DOMAIN pw_queue \subseteq DOMAIN text
               /\ mode = "scrape" => DOMAIN ret.val = 0 .. (pos - 1)

C24_Witness ==
    /\ Scraped
    /\ mode = "scrape"
    /\ is_dict
    /\ index = 2
    /\ DOMAIN pw_queue = {0}
    /\ DOMAIN ret.val = {0, 1}
    /\ ret.val[1].tier = "static"

\* the agent was built for searxng, the probe was sent and did not confirm
\* it (not ok, no "engines", or a connection error): it is bound to ddgs_search
ProbeUnconfirmed == agent_name = "searxng" /\ probed /\ agent_func = "ddgs"

\* C25: when the preferred backend is searxng and the probe at construction
\* does not confirm it, the request is served by ddgs only: ddgs_search is
\* attempted once, searxng_search is never invoked, and a failure of ddgs
\* gives the empty list at once.
C25_UnconfirmedServedByDdgs ==
    ProbeUnconfirmed
    => /\ pc # "searxng"
       /\ CallsOf("searxng") = 0
       /\ CallsOf("ddgs") <= 1
       /\ pc \in {"searched", "done"}
            => /\ attempts # <<>>
               /\ Len(attempts) = 1
               /\ attempts[1].backend = "ddgs"
               /\ attempts[1].kind # "ok" => results = <<>>
       /\ (pc = "done" /\ attempts[1].kind # "ok")
            => ret = Handed(mode, <<>>)

C25_Witness ==
    /\ ProbeUnconfirmed
    /\ mode = "tools"
    /\ pc = "done"
    /\ attempts = << [backend |-> "ddgs", kind |-> "raise", records |-> <<>>] >>
    /\ ret = [kind |-> "list", val |-> <<>>]

====
